---- MODULE Spec2Model ----
(***************************************************************************)
(* Model of the prompt optimizer service (optimizer/optimizer/api.py):     *)
(* the /optimize, /prompts/{name} and /rollout/{name}/promote handlers     *)
(* and the registry (Langfuse) they call.                                  *)
(*                                                                         *)
(* Encoding of Python values.  A Python str that the code inspects is a    *)
(* sequence of one-character strings; Optional[T] is a sequence of length  *)
(* 0 (None) or 1; a value of type Any is a tagged record [t, v].           *)
(***************************************************************************)
EXTENDS Integers, Sequences, FiniteSets, TLC

VARIABLES reg, call

vars == <<reg, call>>

(***************************************************************************)
(* Bounds of the model.                                                    *)
(***************************************************************************)
\* versions the registry accepts per name before it answers only failures
MaxVersions == 2
\* an objective is the concatenation of at most this many fragments
MaxObjFrags == 2
\* a text draft is the concatenation of at most this many fragments
MaxDraftFrags == 2
\* how many times a client feeds an optimized prompt back as a new draft
MaxChain == 1

Clients == {"c1", "c2"}
Names == {"greeting"}
LookupLabels == {"staging", "production"}

None == <<>>
Some(x) == <<x>>

(***************************************************************************)
(* Python str operations used by the handler.                              *)
(***************************************************************************)
UpperAlpha == <<"A","B","C","D","E","F","G","H","I","J","K","L","M",
                "N","O","P","Q","R","S","T","U","V","W","X","Y","Z">>
LowerAlpha == <<"a","b","c","d","e","f","g","h","i","j","k","l","m",
                "n","o","p","q","r","s","t","u","v","w","x","y","z">>

\* str.lower() on one character
LowerChar(ch) ==
    IF \E i \in 1..Len(UpperAlpha) : UpperAlpha[i] = ch
    THEN LowerAlpha[CHOOSE i \in 1..Len(UpperAlpha) : UpperAlpha[i] = ch]
    ELSE ch

\* str.lower()
Lower(s) == [i \in 1..Len(s) |-> LowerChar(s[i])]

\* `sub in s` for two str
Contains(s, sub) ==
    \E i \in 0..(Len(s) - Len(sub)) : SubSeq(s, i + 1, i + Len(sub)) = sub

\* s.replace(old, new) for a non-empty old: leftmost, non-overlapping
RECURSIVE Replace(_, _, _)
Replace(s, old, new) ==
    IF Len(s) < Len(old) THEN s
    ELSE IF SubSeq(s, 1, Len(old)) = old
         THEN new \o Replace(SubSeq(s, Len(old) + 1, Len(s)), old, new)
         ELSE <<Head(s)>> \o Replace(Tail(s), old, new)

\* the literals of the handler
KwClarity == <<"c","l","a","r","i","t","y">>
KwConcise == <<"c","o","n","c","i","s","e">>
KwReduceTokens == <<"r","e","d","u","c","e"," ","t","o","k","e","n","s">>
ClaritySuffix ==
    <<"\n","\n","P","l","e","a","s","e"," ","p","r","o","v","i","d","e"," ",
      "c","l","e","a","r",","," ","s","t","r","u","c","t","u","r","e","d"," ",
      "r","e","s","p","o","n","s","e","s",".">>
FillerPlease == <<"P","l","e","a","s","e"," ">>
FillerVery == <<" ","v","e","r","y"," ">>
Blank == <<" ">>

(***************************************************************************)
(* Values of type Any (PromptDraft.prompt).                                *)
(***************************************************************************)
StrVal(s) == [t |-> "str", v |-> s]
ListVal(s) == [t |-> "list", v |-> s]
IntVal(n) == [t |-> "int", v |-> <<n>>]

\* isinstance(x, str)
IsStr(x) == x.t = "str"

SameValue(a, b) == a.t = b.t /\ a.v = b.v

(***************************************************************************)
(* Request validation at the boundary (pydantic models, lines 35-65).      *)
(* Only RolloutConfig.percentage carries a constraint (ge=0, le=100);      *)
(* PromptDraft.type is any str and PromptDraft.prompt is Any.              *)
(***************************************************************************)
PercentageMin == 0
PercentageMax == 100

RolloutConfigValid(r) ==
    r.percentage >= PercentageMin /\ r.percentage <= PercentageMax

RequestValid(req) ==
    Len(req.rollout) = 1 => RolloutConfigValid(req.rollout[1])

(***************************************************************************)
(* Faulty variants of the engine, used to test the properties below.       *)
(***************************************************************************)
\* the second test reads `"concise" or "reduce tokens" in objective`, which
\* is always true
EngineAlwaysTrims(prompt, objective) ==
    LET lowered == Lower(objective) IN
    IF Contains(lowered, KwClarity)
    THEN IF IsStr(prompt) THEN StrVal(prompt.v \o ClaritySuffix) ELSE prompt
    ELSE IF IsStr(prompt)
         THEN StrVal(Replace(Replace(prompt.v, FillerPlease, <<>>),
                             FillerVery, Blank))
         ELSE prompt

\* the suffix is appended only to content that does not end with it yet
EngineGuardedSuffix(prompt, objective) ==
    LET lowered == Lower(objective)
        EndsWithSuffix(s) ==
            /\ Len(s) >= Len(ClaritySuffix)
            /\ SubSeq(s, Len(s) - Len(ClaritySuffix) + 1, Len(s)) = ClaritySuffix
    IN
    IF Contains(lowered, KwClarity)
    THEN IF IsStr(prompt) /\ ~EndsWithSuffix(prompt.v)
         THEN StrVal(prompt.v \o ClaritySuffix) ELSE prompt
    ELSE IF Contains(lowered, KwConcise) \/ Contains(lowered, KwReduceTokens)
         THEN IF IsStr(prompt)
              THEN StrVal(Replace(Replace(prompt.v, FillerPlease, <<>>),
                                  FillerVery, Blank))
              ELSE prompt
         ELSE prompt

(***************************************************************************)
(* optimize_prompt, lines 113-123: the simulated optimization.             *)
(***************************************************************************)
Engine(prompt, objective) ==
    LET lowered == Lower(objective) IN
    IF Contains(lowered, KwClarity)
    THEN IF IsStr(prompt) THEN StrVal(prompt.v \o ClaritySuffix) ELSE prompt
    ELSE IF Contains(lowered, KwConcise) \/ Contains(lowered, KwReduceTokens)
         THEN IF IsStr(prompt)
              THEN StrVal(Replace(Replace(prompt.v, FillerPlease, <<>>),
                                  FillerVery, Blank))
              ELSE prompt
         ELSE prompt

(***************************************************************************)
(* optimize_prompt, lines 126-138: the rollout plan.  A RolloutConfig      *)
(* instance is truthy, so the plan is built whenever rollout is not None.  *)
(***************************************************************************)
ExpansionPercentage == 50
FullPercentage == 100

\* faulty variant: the final phase is labelled "production" whatever the
\* request's labels are
PlannerFixedLabels(rollout, labels) ==
    IF Len(rollout) = 0 THEN None
    ELSE Some([strategy |-> rollout[1].strategy,
               phases |-> <<
                 [percentage |-> rollout[1].percentage, duration |-> "1h",
                  labels |-> <<"canary">>],
                 [percentage |-> ExpansionPercentage, duration |-> "4h",
                  labels |-> <<"staging">>],
                 [percentage |-> FullPercentage, duration |-> "stable",
                  labels |-> <<"production">>] >>,
               evaluation_metric |-> rollout[1].evaluation_metric,
               threshold |-> rollout[1].threshold,
               rollback_on_failure |-> TRUE])

Planner(rollout, labels) ==
    IF Len(rollout) = 0 THEN None
    ELSE Some([strategy |-> rollout[1].strategy,
               phases |-> <<
                 [percentage |-> rollout[1].percentage, duration |-> "1h",
                  labels |-> <<"canary">>],
                 [percentage |-> ExpansionPercentage, duration |-> "4h",
                  labels |-> <<"staging">>],
                 [percentage |-> FullPercentage, duration |-> "stable",
                  labels |-> labels] >>,
               evaluation_metric |-> rollout[1].evaluation_metric,
               threshold |-> rollout[1].threshold,
               rollback_on_failure |-> TRUE])

(***************************************************************************)
(* optimize_prompt, lines 141-154: the keyword arguments of create_prompt. *)
(* A dict is a function from its keys; "config" is present only when the   *)
(* commit message is truthy or the draft has a config.                     *)
(***************************************************************************)
ConfigDict(cfg) ==
    ("temperature" :> cfg.temperature) @@ ("max_tokens" :> cfg.max_tokens)
        @@ ("model" :> cfg.model)

\* bool(commit_message): None and "" are falsy
Truthy(opt) == Len(opt) = 1 /\ opt[1] # ""

PromptData(req, optimized) ==
    LET base == [name |-> req.name, type |-> req.draft.type,
                 prompt |-> optimized, labels |-> req.labels] IN
    IF Truthy(req.commit_message)
    THEN base @@
         [config |-> Some((IF Len(req.draft.config) = 1
                           THEN ConfigDict(req.draft.config[1])
                           ELSE <<>>)
                          @@ ("commitMessage" :> req.commit_message[1]))]
    ELSE IF Len(req.draft.config) = 1
         THEN base @@ [config |-> Some(ConfigDict(req.draft.config[1]))]
         ELSE base @@ [config |-> None]

(***************************************************************************)
(* The registry behind lf.create_prompt / lf.get_prompt.  reg[n] is the    *)
(* sequence of versions of name n, reg[n][v] the labels version v carries. *)
(* A label points at one version per name: creating a version with a       *)
(* label takes it from the version that carried it.                        *)
(***************************************************************************)
ToSet(seq) == {seq[i] : i \in 1..Len(seq)}

RegCreate(r, name, labels) ==
    [r EXCEPT ![name] =
        Append([v \in 1..Len(r[name]) |-> r[name][v] \ ToSet(labels)],
               ToSet(labels))]

\* the versions of `name` carrying `label` (none or one)
RegFind(r, name, label) ==
    {v \in 1..Len(r[name]) : label \in r[name][v]}

(***************************************************************************)
(* A handler invocation.  Idle: no request in flight for the client.       *)
(***************************************************************************)
Idle == [pc |-> "idle", op |-> "none"]

\* faulty variant: the request is validated only after it was stored
RejectedAfterWrite(req, depth, origin) ==
    [pc |-> "done", op |-> "optimize", req |-> req, depth |-> depth,
     origin |-> origin, optimized |-> None, plan |-> None, payload |-> None,
     writes |-> 1, created |-> None, createFailed |-> FALSE,
     status |-> 422, detail |-> "validation", resp |-> None]

\* optimize_prompt rejected by request validation: the handler never runs
Rejected(req, depth, origin) ==
    [pc |-> "done", op |-> "optimize", req |-> req, depth |-> depth,
     origin |-> origin, optimized |-> None, plan |-> None, payload |-> None,
     writes |-> 0, created |-> None, createFailed |-> FALSE,
     status |-> 422, detail |-> "validation", resp |-> None]

\* optimize_prompt, lines 99-157: up to the call of lf.create_prompt
Prepared(req, depth, origin) ==
    LET optimized == Engine(req.draft.prompt, req.objective) IN
    [pc |-> "create", op |-> "optimize", req |-> req, depth |-> depth,
     origin |-> origin, optimized |-> Some(optimized),
     plan |-> Planner(req.rollout, req.labels),
     payload |-> Some(PromptData(req, optimized)),
     writes |-> 0, created |-> None, createFailed |-> FALSE,
     status |-> 0, detail |-> "", resp |-> None]

\* optimize_prompt, lines 164-169: the simulated metrics (floats as text)
SimulatedMetrics ==
    [token_reduction |-> "0.15", clarity_score |-> "0.92",
     coherence_score |-> "0.89", optimization_iterations |-> "3"]

\* faulty variant: the handler numbers the version itself, from the number
\* of writes it made
OnCreatedOwnCount(rec, version) ==
    [rec EXCEPT !.pc = "done", !.writes = @ + 1, !.status = 200,
                !.detail = "ok",
                !.resp = Some([version |-> rec.writes + 1,
                               labels |-> rec.req.labels,
                               optimized_prompt |-> rec.optimized[1],
                               rollout_plan |-> rec.plan,
                               metrics |-> SimulatedMetrics])]

\* optimize_prompt, lines 161-179: lf.create_prompt returned `version`
OnCreated(rec, version) ==
    [rec EXCEPT !.pc = "done", !.writes = @ + 1, !.status = 200, !.detail = "ok",
                !.resp = Some([version |-> version,
                               labels |-> rec.req.labels,
                               optimized_prompt |-> rec.optimized[1],
                               rollout_plan |-> rec.plan,
                               metrics |-> SimulatedMetrics])]

\* faulty variant: the registry's error is swallowed and a response built
OnCreateFailedSwallowed(rec) ==
    [rec EXCEPT !.pc = "done", !.writes = @ + 1, !.createFailed = TRUE,
                !.status = 200, !.detail = "ok",
                !.resp = Some([version |-> 0,
                               labels |-> rec.req.labels,
                               optimized_prompt |-> rec.optimized[1],
                               rollout_plan |-> rec.plan,
                               metrics |-> SimulatedMetrics])]

\* optimize_prompt, lines 161, 181-189: lf.create_prompt raised
OnCreateFailed(rec) ==
    [rec EXCEPT !.pc = "done", !.writes = @ + 1, !.createFailed = TRUE,
                !.status = 500,
                !.detail = "Failed to store prompt in Langfuse"]

\* get_prompt, lines 203-219; found is the result of lf.get_prompt, a set
\* holding the version, or empty when it raised (cause says why)
GetResult(name, label, found, cause) ==
    IF cause = "none"
    THEN [pc |-> "done", op |-> "get", name |-> name, label |-> label,
          cause |-> cause, status |-> 200, detail |-> "ok",
          resp |-> Some([name |-> name,
                         version |-> CHOOSE v \in found : TRUE])]
    ELSE [pc |-> "done", op |-> "get", name |-> name, label |-> label,
          cause |-> cause, status |-> 404, detail |-> "Prompt not found",
          resp |-> None]

\* promote_rollout, lines 227-248
PromoteResult(name, from_label, to_label, found, cause) ==
    IF cause = "none"
    THEN [pc |-> "done", op |-> "promote", name |-> name,
          from_label |-> from_label, to_label |-> to_label,
          cause |-> cause, status |-> 200, detail |-> "ok",
          resp |-> Some([version |-> CHOOSE v \in found : TRUE,
                         labels |-> <<to_label>>])]
    ELSE [pc |-> "done", op |-> "promote", name |-> name,
          from_label |-> from_label, to_label |-> to_label,
          cause |-> cause, status |-> 500,
          detail |-> "Failed to promote prompt", resp |-> None]

(***************************************************************************)
(* Actions.                                                                *)
(***************************************************************************)
Init ==
    /\ reg = [n \in Names |-> <<>>]
    /\ call = [c \in Clients |-> Idle]

\* POST /optimize arrives: validation, then the handler up to the registry
\* call.  Nothing shared is read or written before lf.create_prompt.
OptimizeBegin(c, requests) ==
    /\ call[c].pc = "idle"
    /\ \E req \in requests :
         call' = [call EXCEPT ![c] =
                    IF RequestValid(req)
                    THEN Prepared(req, 0, req.draft.prompt)
                    ELSE Rejected(req, 0, req.draft.prompt)]
    /\ UNCHANGED reg

\* the client posts the optimized prompt it received as the draft of a new
\* request with the same objective
Reoptimize(c) ==
    /\ call[c].pc = "done" /\ call[c].op = "optimize"
    /\ call[c].status = 200
    /\ call[c].depth < MaxChain
    /\ LET req == [call[c].req EXCEPT
                     !.draft.prompt = call[c].resp[1].optimized_prompt] IN
       call' = [call EXCEPT ![c] =
                  Prepared(req, call[c].depth + 1, call[c].origin)]
    /\ UNCHANGED reg

\* lf.create_prompt succeeds: the registry assigns the next version, which
\* `created` records as the registry's answer to this call
CreateOk(c) ==
    /\ call[c].pc = "create"
    /\ LET name == call[c].req.name IN
       /\ Len(reg[name]) < MaxVersions
       /\ reg' = RegCreate(reg, name, call[c].req.labels)
       /\ call' = [call EXCEPT ![c] =
                     [OnCreated(call[c], Len(reg'[name])) EXCEPT
                        !.created = Some(Len(reg'[name]))]]

\* lf.create_prompt raises: the registry refused the write, or applied it
\* and the answer was lost
CreateFail(c) ==
    /\ call[c].pc = "create"
    /\ call' = [call EXCEPT ![c] = OnCreateFailed(call[c])]
    /\ LET name == call[c].req.name IN
       \/ UNCHANGED reg
       \/ /\ Len(reg[name]) < MaxVersions
          /\ reg' = RegCreate(reg, name, call[c].req.labels)

\* GET /prompts/{name}
GetPrompt(c, name, label) ==
    /\ call[c].pc = "idle"
    /\ \E cause \in {"none", "missing", "backend"} :
         /\ cause = "none" => RegFind(reg, name, label) # {}
         /\ cause = "missing" => RegFind(reg, name, label) = {}
         /\ call' = [call EXCEPT ![c] =
                       GetResult(name, label, RegFind(reg, name, label), cause)]
    /\ UNCHANGED reg

\* POST /rollout/{name}/promote
PromoteRollout(c, name, from_label, to_label) ==
    /\ call[c].pc = "idle"
    /\ \E cause \in {"none", "missing", "backend"} :
         /\ cause = "none" => RegFind(reg, name, from_label) # {}
         /\ cause = "missing" => RegFind(reg, name, from_label) = {}
         /\ call' = [call EXCEPT ![c] =
                       PromoteResult(name, from_label, to_label,
                                     RegFind(reg, name, from_label), cause)]
    /\ UNCHANGED reg

\* the response leaves the service
Deliver(c) ==
    /\ call[c].pc = "done"
    /\ call' = [call EXCEPT ![c] = Idle]
    /\ UNCHANGED reg

(***************************************************************************)
(* The requests the clients send.                                          *)
(***************************************************************************)
\* the concatenations of at most n members of frags
RECURSIVE Concats(_, _)
Concats(frags, n) ==
    IF n = 0 THEN {<<>>}
    ELSE LET shorter == Concats(frags, n - 1) IN
         shorter \cup {p \o f : p \in shorter, f \in frags}

ObjFragments ==
    { <<"C","L","A","R","I","T","Y">>, <<"c","l","a","r">>, <<"i","t","y">>,
      <<"C","o","n","c","i","s","e">>, <<"R","e","d","u","c","e">>,
      <<" ","t","o","k","e","n","s">> }

DraftFragments ==
    { <<"P","l","e","a","s","e"," ">>, <<"h","e","l","p",".">>,
      <<" ","v","e","r","y"," ">> }

PleaseHelp == <<"P","l","e","a","s","e"," ","h","e","l","p",".">>
ReduceTokens == <<"r","e","d","u","c","e"," ","t","o","k","e","n","s">>

ChatMessages == <<[role |-> "user", content |-> "Please help."]>>

\* PromptConfig(), lines 37-39: the defaults
DefaultConfig == [temperature |-> "0.7", max_tokens |-> 1000, model |-> "gpt-4"]

Request(name, type, prompt, config, objective, commit_message, labels, rollout) ==
    [name |-> name,
     draft |-> [type |-> type, prompt |-> prompt, config |-> config],
     objective |-> objective, commit_message |-> commit_message,
     labels |-> labels, rollout |-> rollout]

\* drafts whose content has the shape their type declares
WellFormedDrafts(texts) ==
    {[type |-> "text", prompt |-> StrVal(s)] : s \in texts}
        \cup {[type |-> "chat", prompt |-> ListVal(ChatMessages)]}

\* drafts whose content has the wrong shape for their type
MalformedDrafts ==
    { [type |-> "text", prompt |-> ListVal(ChatMessages)],
      [type |-> "text", prompt |-> IntVal(7)],
      [type |-> "chat", prompt |-> StrVal(PleaseHelp)] }

WellFormed(draft) ==
    \/ draft.type = "text" /\ draft.prompt.t = "str"
    \/ draft.type = "chat" /\ draft.prompt.t = "list"

Percentages == (0 - 1)..101 \cup {150}

Rollouts ==
    {[strategy |-> s, percentage |-> p, evaluation_metric |-> m.metric,
      threshold |-> m.threshold] :
        s \in {"gradual", "canary", "blue-green"}, p \in Percentages,
        m \in {[metric |-> "success_rate", threshold |-> "0.95"],
                [metric |-> "latency", threshold |-> "0.5"]}}

\* the engine's inputs: many drafts and objectives
EngineRequests ==
    {Request("greeting", d.type, d.prompt, None, o, None, <<"staging">>, None) :
        d \in WellFormedDrafts(Concats(DraftFragments, MaxDraftFrags))
                 \cup MalformedDrafts,
        o \in Concats(ObjFragments, MaxObjFrags)}

\* the planner's inputs: many rollout configurations, label lists and configs
PlannerRequests ==
    {Request("greeting", "text", StrVal(PleaseHelp), k.config, ReduceTokens,
             k.commit_message, l, r) :
        k \in {[config |-> None, commit_message |-> None],
                [config |-> Some(DefaultConfig), commit_message |-> Some("")],
                [config |-> None, commit_message |-> Some("tuned")],
                [config |-> Some(DefaultConfig), commit_message |-> Some("tuned")]},
        l \in {<<>>, <<"production", "staging">>},
        r \in {None} \cup {Some(x) : x \in Rollouts}}

\* the requests of concurrent clients
ServiceRequests ==
    {Request("greeting", d.type, d.prompt, None, ReduceTokens, None, l, r) :
        d \in WellFormedDrafts({PleaseHelp}) \cup MalformedDrafts,
        l \in {<<"staging">>, <<"production">>},
        r \in {None} \cup {Some(x) : x \in {y \in Rollouts :
                   /\ y.strategy = "gradual" /\ y.percentage \in {10, 150}
                   /\ y.evaluation_metric = "latency"}}}

(***************************************************************************)
(* Specifications.                                                         *)
(***************************************************************************)
Step(c, requests) ==
    \/ OptimizeBegin(c, requests)
    \/ Reoptimize(c)
    \/ CreateOk(c)
    \/ CreateFail(c)
    \/ \E n \in Names, l \in LookupLabels : GetPrompt(c, n, l)
    \/ \E n \in Names, f \in LookupLabels, t \in LookupLabels :
          PromoteRollout(c, n, f, t)
    \/ Deliver(c)

\* concurrent clients of the service
Next == \E c \in Clients : Step(c, ServiceRequests)

Spec == Init /\ [][Next]_vars

\* one client, the engine's input space
NextEngine == Step("c1", EngineRequests)

SpecEngine == Init /\ [][NextEngine]_vars

\* one client, the planner's input space
NextPlanner == Step("c1", PlannerRequests)

SpecPlanner == Init /\ [][NextPlanner]_vars

(***************************************************************************)
(* Properties.                                                             *)
(***************************************************************************)
\* an optimize call that has ended
Ended(c) == call[c].op = "optimize" /\ call[c].pc = "done"

\* an optimize call whose handler body ran (the request passed validation)
Ran(c) == call[c].op = "optimize" /\ Len(call[c].optimized) = 1

\* the objective names a recognized intent
HasIntent(objective) ==
    \/ Contains(Lower(objective), KwClarity)
    \/ Contains(Lower(objective), KwConcise)
    \/ Contains(Lower(objective), KwReduceTokens)

RECURSIVE Repeat(_, _)
Repeat(s, n) == IF n = 0 THEN <<>> ELSE s \o Repeat(s, n - 1)

\* C1: an optimize call that returned an OptimizeResponse performed exactly
\* one create_prompt call, and one that ended in a validation failure (or in
\* the handler's own "optimization failed" error) performed none.
C1_WritesPerCall ==
    \A c \in Clients :
        Ended(c) =>
            /\ Len(call[c].resp) = 1 => call[c].writes = 1
            /\ call[c].detail \in {"validation", "Prompt optimization failed"}
                   => call[c].writes = 0

C1_Witness ==
    \E c, d \in Clients :
        /\ Ended(c) /\ Len(call[c].resp) = 1 /\ call[c].writes = 1
        /\ Ended(d) /\ call[d].detail = "validation" /\ call[d].writes = 0

\* C2: when create_prompt fails, the optimize call ends in an error with no
\* OptimizeResponse (so no version number), after exactly one create_prompt
\* call.
C2_FailedCreateIsError ==
    \A c \in Clients :
        (Ended(c) /\ call[c].createFailed) =>
            /\ call[c].status >= 400
            /\ call[c].resp = None
            /\ call[c].writes = 1

C2_Witness ==
    \E c \in Clients :
        /\ Ended(c) /\ call[c].createFailed /\ call[c].status = 500
        /\ Len(reg[call[c].req.name]) = 1

\* C3: the version of an OptimizeResponse is the version the registry
\* returned to that call, also with concurrent calls for the same name.
C3_VersionIsRegistrys ==
    \A c \in Clients :
        (Ended(c) /\ Len(call[c].resp) = 1) =>
            /\ Len(call[c].created) = 1
            /\ call[c].resp[1].version = call[c].created[1]
            /\ call[c].created[1] \in 1..Len(reg[call[c].req.name])

C3_Witness ==
    \E c, d \in Clients :
        /\ c # d
        /\ Ended(c) /\ Len(call[c].resp) = 1
        /\ Ended(d) /\ Len(call[d].resp) = 1
        /\ call[c].req.name = call[d].req.name
        /\ call[c].resp[1].version = 1 /\ call[d].resp[1].version = 2

\* C4: the plan built for a valid rollout config and the request's labels
\* has exactly 3 phases, the last at 100 percent with the request's labels,
\* rollback_on_failure true, and the config's metric and threshold; without
\* a rollout config the plan is null.  The response carries that plan.
C4_PlanShape ==
    \A c \in Clients :
        Ran(c) =>
            /\ Len(call[c].req.rollout) = 0 => call[c].plan = None
            /\ Len(call[c].req.rollout) = 1 =>
                  /\ Len(call[c].plan) = 1
                  /\ Len(call[c].plan[1].phases) = 3
                  /\ call[c].plan[1].phases[3].percentage = 100
                  /\ call[c].plan[1].phases[3].labels = call[c].req.labels
                  /\ call[c].plan[1].rollback_on_failure = TRUE
                  /\ call[c].plan[1].evaluation_metric
                        = call[c].req.rollout[1].evaluation_metric
                  /\ call[c].plan[1].threshold = call[c].req.rollout[1].threshold
            /\ Len(call[c].resp) = 1 =>
                  call[c].resp[1].rollout_plan = call[c].plan

C4_Witness ==
    \E c \in Clients :
        /\ Ended(c) /\ Len(call[c].resp) = 1
        /\ Len(call[c].req.rollout) = 1
        /\ call[c].req.rollout[1].percentage = 100
        /\ call[c].req.labels = <<"production", "staging">>
        /\ Len(call[c].resp[1].rollout_plan) = 1

\* C5: in every plan the phase percentages are in [0,100] and non-decreasing
\* in phase order.
C5_NonDecreasing ==
    \A c \in Clients :
        (Ran(c) /\ Len(call[c].plan) = 1) =>
            LET ph == call[c].plan[1].phases IN
            /\ \A i \in 1..Len(ph) : ph[i].percentage \in 0..100
            /\ \A i \in 1..(Len(ph) - 1) :
                   ph[i].percentage <= ph[i + 1].percentage
            /\ ph[Len(ph)].percentage = 100

\* C6: for get-prompt and promote, a missing (name, label) ends as not found
\* (404) and a backend failure as a server-side failure (500).
C6_NotFoundVersusBackend ==
    \A c \in Clients :
        (call[c].pc = "done" /\ call[c].op \in {"get", "promote"}) =>
            /\ call[c].cause = "missing" => call[c].status = 404
            /\ call[c].cause = "backend" => call[c].status = 500

\* C7: when promote(name, from_label, to_label) succeeds, the returned labels
\* include to_label, the returned version is the one that carried
\* from_label, and right after it the registry resolves (name, to_label) to
\* that version.
C7_PromotedCarriesLabel ==
    [][\A c \in Clients :
         (/\ call[c].pc = "idle"
          /\ call'[c].pc = "done" /\ call'[c].op = "promote"
          /\ call'[c].status = 200) =>
            /\ call'[c].to_label \in ToSet(call'[c].resp[1].labels)
            /\ RegFind(reg, call'[c].name, call'[c].from_label)
                  = {call'[c].resp[1].version}
            /\ RegFind(reg', call'[c].name, call'[c].to_label)
                  = {call'[c].resp[1].version}]_vars

\* C8: with an objective that names no recognized intent, the optimized
\* content, the content written to the registry and the content returned
\* all equal the draft's content.
C8_NoIntentIsIdentity ==
    \A c \in Clients :
        (Ran(c) /\ ~HasIntent(call[c].req.objective)) =>
            /\ SameValue(call[c].optimized[1], call[c].req.draft.prompt)
            /\ SameValue(call[c].payload[1].prompt, call[c].req.draft.prompt)
            /\ Len(call[c].resp) = 1 =>
                  SameValue(call[c].resp[1].optimized_prompt,
                            call[c].req.draft.prompt)

C8_Witness ==
    \E c \in Clients :
        /\ Ended(c) /\ Len(call[c].resp) = 1
        /\ call[c].req.objective = <<"R","e","d","u","c","e","i","t","y">>
        /\ IsStr(call[c].req.draft.prompt)
        /\ Contains(call[c].req.draft.prompt.v, FillerPlease)
        /\ call[c].resp[1].optimized_prompt = call[c].req.draft.prompt

\* C9: an optimize call whose draft content has the wrong shape for its type
\* ends in a validation error, performs no create_prompt call and returns no
\* OptimizeResponse.
C9_MalformedRejected ==
    \A c \in Clients :
        (call[c].op = "optimize" /\ ~WellFormed(call[c].req.draft)) =>
            /\ call[c].writes = 0
            /\ call[c].resp = None
            /\ call[c].pc = "done" => call[c].detail = "validation"

\* C10: for a str draft and an objective containing "clarity" in any case,
\* also beside "concise" or "reduce tokens", the optimized content is the
\* draft's content followed by the suffix; optimizing the result again
\* appends the suffix again, so after n re-optimizations the content is the
\* first draft followed by n + 1 suffixes.
C10_ClarityAppends ==
    \A c \in Clients :
        (/\ Ran(c) /\ IsStr(call[c].req.draft.prompt)
         /\ Contains(Lower(call[c].req.objective), KwClarity)) =>
            /\ SameValue(call[c].optimized[1],
                          StrVal(call[c].req.draft.prompt.v \o ClaritySuffix))
            /\ SameValue(call[c].optimized[1],
                          StrVal(call[c].origin.v
                                   \o Repeat(ClaritySuffix, call[c].depth + 1)))
            /\ ~SameValue(call[c].optimized[1], call[c].req.draft.prompt)

C10_Witness ==
    \E c \in Clients :
        /\ Ended(c) /\ Len(call[c].resp) = 1 /\ call[c].depth = 1
        /\ call[c].req.objective
              = <<"C","L","A","R","I","T","Y","C","o","n","c","i","s","e">>
        /\ SameValue(call[c].origin, StrVal(PleaseHelp))
        /\ SameValue(call[c].resp[1].optimized_prompt,
                     StrVal(PleaseHelp \o ClaritySuffix \o ClaritySuffix))

====
